---- MODULE Spec2Model ----
(***************************************************************************)
(* Model of the cardgame crate: the SpotIt! deck generator                 *)
(* (SpotItDeck::generate_by_prime and its helpers), the match test of      *)
(* SpotItCard, and the Deck container operations of SpotItDeck.            *)
(*                                                                         *)
(* A SpotItSymbol is modelled by its index in SpotItSymbol::iter() order   *)
(* (Apple = 0, Apricot = 1, Avocado = 2, ..., Currant = 9, ..., Yuzu = 92).*)
(* A SpotItCard is the set of its symbols (HashSet<SpotItSymbol>).         *)
(* A deck is the sequence of its cards (Vec<SpotItCard>).                  *)
(***************************************************************************)
EXTENDS Integers, Sequences, FiniteSets, TLC

VARIABLES
    n,              \* the u8 argument handed to generate_by_prime
    overflowChecks, \* TRUE: build with overflow checks (debug), FALSE: wrapping (release)
    zeroIsPrime,    \* what prime_checker::is_prime answers for 0
    res,            \* res[d]: outcome of the d-th run of generate_by_prime(n)
    deck,           \* deck[d]: the cards of the d-th SpotItDeck
    ops,            \* number of deck operations performed so far
    ret,            \* value returned by the last deck operation
    last,           \* the last deck operation and the deck it was applied to
    arg,            \* the argument of the last deck operation
    prev,           \* the cards of that deck before the last deck operation
    cardA, cardB,   \* the two cards of a match_exactly_one_symbol call
    matched         \* result of that call

vars == <<n, overflowChecks, zeroIsPrime, res, deck, ops, ret, last, arg, prev, cardA, cardB, matched>>

(***************************************************************************)
(* Bounds of the model.                                                    *)
(***************************************************************************)
MaxOps == 3         \* deck operations per behaviour
MaxShuffleLen == 3  \* longest deck that is shuffled
MaxPushSym == 0     \* pushed cards are subsets of 0..MaxPushSym
MaxOpLen == 3       \* deck operations run on generated decks of at most MaxOpLen cards
MaxMatchSym == 3    \* matched cards are subsets of 0..MaxMatchSym

(***************************************************************************)
(* Program constants.                                                      *)
(***************************************************************************)
AlphabetSize == 93  \* SpotItSymbol::iter().count()
U8Max == 255        \* u8::MAX

Decks == 1..2
\* Option<T>: None is the empty sequence, Some(x) the sequence of x
None == <<>>
Some(x) == <<x>>
Unwrap(o) == o[1]
NoOp == <<"none", 0>>

(***************************************************************************)
(* SpotItCard                                                              *)
(***************************************************************************)
\* HashSet::intersection(a, b).count(): walk the elements of a, keep those
\* that b contains, count them.
RECURSIVE IntersectionCount(_, _)
IntersectionCount(a, b) ==
    IF a = {} THEN 0
    ELSE LET x == CHOOSE e \in a : TRUE
         IN  (IF x \in b THEN 1 ELSE 0) + IntersectionCount(a \ {x}, b)

\* mutant: "at least one" instead of "exactly one"
match_exactly_one_symbol_AtLeastOne(a, b) == IntersectionCount(a, b) >= 1

match_exactly_one_symbol(a, b) == IntersectionCount(a, b) = 1

(***************************************************************************)
(* Arithmetic of the u8 parameter.                                         *)
(***************************************************************************)
\* n * n + n + 1 evaluated left to right in u8: does any step leave 0..255
CapacityOverflows(k) == \/ k * k > U8Max
                        \/ k * k + k > U8Max
                        \/ k * k + k + 1 > U8Max

\* the wrapped value of n * n + n + 1
CapacityWrapped(k) == (k * k + k + 1) % (U8Max + 1)

\* prime_checker::is_prime(n as u64).0
\* 1 is accepted (generate_by_prime(1).unwrap() in the crate's tests and the
\* n == 1 branch behind the check); the answer for 0 is left open.
is_prime(k) ==
    IF k = 0 THEN zeroIsPrime
    ELSE IF k = 1 THEN TRUE
    ELSE \A d \in 2..(k - 1) : k % d # 0

(***************************************************************************)
(* fraction::Fraction                                                      *)
(***************************************************************************)
RECURSIVE GCD(_, _)
GCD(a, b) == IF b = 0 THEN a ELSE GCD(b, a % b)

\* F::new(num, den): NaN for 0/0, Infinity for x/0, else the ratio in
\* lowest terms
FNew(num, den) ==
    IF den = 0
    THEN IF num = 0 THEN [tag |-> "NaN", numer |-> 0, denom |-> 0]
                    ELSE [tag |-> "Infinity", numer |-> 0, denom |-> 0]
    ELSE [tag |-> "Rational", numer |-> num \div GCD(num, den),
                              denom |-> den \div GCD(num, den)]

(***************************************************************************)
(* SpotItDeck::gen_projective_plane                                        *)
(***************************************************************************)
\* the k-th call of symbol.next() (k from 0): Some(symbol k) or None
SymbolNext(k) == IF k < AlphabetSize THEN Some(k) ELSE None

\* symbol.next().unwrap() is reached on an exhausted iterator
PlaneUnwrapsNone(k) == \E i \in 0..(k * k + k) : SymbolNext(i) = None

\* mutant: the grid is filled column by column
gen_projective_plane_ColumnMajor(k) ==
    [plane |-> [r \in 0..(k - 1) |-> [c \in 0..(k - 1) |-> Unwrap(SymbolNext(c * k + r))]],
     line  |-> [i \in 1..(k + 1) |-> Unwrap(SymbolNext(k * k + (i - 1)))]]

\* (plane, line): plane[r][c] for r, c in 0..n-1, line[1..n+1]
gen_projective_plane(k) ==
    [plane |-> [r \in 0..(k - 1) |-> [c \in 0..(k - 1) |-> Unwrap(SymbolNext(r * k + c))]],
     line  |-> [i \in 1..(k + 1) |-> Unwrap(SymbolNext(k * k + (i - 1)))]]

(***************************************************************************)
(* SpotItDeck::cal_slope                                                   *)
(***************************************************************************)
\* n - 1 in u8 underflows
SlopeUnderflows(k) == k = 0

\* mutant: the loop runs over 1..=n instead of 0..n
cal_slope_FromOne(k) ==
    <<FNew(0, (k + U8Max) % (U8Max + 1))>> \o [i \in 1..k |-> FNew(1, i)]

\* mutant: the infinite slope first, then 0/(n-1), then 1/1 .. 1/(n-1)
cal_slope_InfiniteFirst(k) ==
    <<FNew(1, 0), FNew(0, (k + U8Max) % (U8Max + 1))>>
        \o [i \in 1..(k - 1) |-> FNew(1, i)]

cal_slope(k) ==
    <<FNew(0, (k + U8Max) % (U8Max + 1))>> \o [i \in 1..k |-> FNew(1, i - 1)]

(***************************************************************************)
(* SpotItDeck::generate_by_prime                                           *)
(***************************************************************************)
\* does the scan select the point (x, y) for this slope and offset c
OnLine(slope, c, x, y) ==
    CASE slope.tag = "NaN"      -> FALSE
      [] slope.tag = "Infinity" -> x = c
      [] slope.tag = "Rational" -> y = (slope.numer \div slope.denom) * x + c

\* mutant: the scan runs over 0..n instead of 0..n*n
SymbolOnPlane_NoOverScan(plane, k, slope, c) ==
    { plane[p[2] % k][p[1] % k] :
        p \in { q \in (0..(k - 1)) \X (0..(k - 1)) :
                  OnLine(slope, c, q[1], q[2]) } }

\* symbol_on_plane after the scan of x, y over 0..n*n
SymbolOnPlane(plane, k, slope, c) ==
    { plane[p[2] % k][p[1] % k] :
        p \in { q \in (0..(k * k - 1)) \X (0..(k * k - 1)) :
                  OnLine(slope, c, q[1], q[2]) } }

\* mutant: line_iter is not advanced, every slope gets the first symbol-at-infinity
LineCard_FirstInfinity(pl, k, slopes, s, c) ==
    SymbolOnPlane(pl.plane, k, slopes[s], c) \cup {pl.line[1]}

\* the card pushed for the slope of index s (from 1) and offset c
LineCard(pl, k, slopes, s, c) ==
    SymbolOnPlane(pl.plane, k, slopes[s], c) \cup {pl.line[s]}

Range(f) == { f[x] : x \in DOMAIN f }

\* mutant: the loops are nested offset-major, slope-minor
GeneralDeck_OffsetMajor(k) ==
    LET pl     == gen_projective_plane(k)
        slopes == cal_slope(k)
    IN  [i \in 1..(Len(slopes) * k + 1) |->
            IF i = Len(slopes) * k + 1
            THEN Range(pl.line)
            ELSE LineCard(pl, k, slopes, ((i - 1) % Len(slopes)) + 1,
                          (i - 1) \div Len(slopes))]

\* mutant: the final card of the symbols-at-infinity is not pushed
GeneralDeck_NoLineAtInfinity(k) ==
    LET pl     == gen_projective_plane(k)
        slopes == cal_slope(k)
    IN  [i \in 1..(Len(slopes) * k) |->
            LineCard(pl, k, slopes, ((i - 1) \div k) + 1, (i - 1) % k)]

\* the deck built by the general branch
GeneralDeck(k) ==
    LET pl     == gen_projective_plane(k)
        slopes == cal_slope(k)
    IN  [i \in 1..(Len(slopes) * k + 1) |->
            IF i = Len(slopes) * k + 1
            THEN Range(pl.line)
            ELSE LineCard(pl, k, slopes, ((i - 1) \div k) + 1, (i - 1) % k)]

\* the deck built by the n == 1 branch
UnitDeck ==
    LET pl == gen_projective_plane(1)
    IN  [i \in 1..(Len(pl.line) + 1) |->
            IF i = Len(pl.line) + 1
            THEN Range(pl.line)
            ELSE {pl.plane[0][0], pl.line[i]}]

Outcome(kind, stage, cards) == [kind |-> kind, stage |-> stage, cards |-> cards]
NotRun == Outcome("NotRun", "none", <<>>)

\* mutant: the primality check runs before the capacity check
generate_by_prime_PrimeFirst(k) ==
    IF ~is_prime(k)
        THEN Outcome("ErrNotPrime", "check", <<>>)
    ELSE IF overflowChecks /\ CapacityOverflows(k)
        THEN Outcome("Panic", "check", <<>>)
    ELSE IF CapacityWrapped(k) > AlphabetSize
        THEN Outcome("ErrTooLarge", "check", <<>>)
    ELSE IF k = 1
        THEN Outcome("Ok", "done", UnitDeck)
    ELSE IF PlaneUnwrapsNone(k)
        THEN Outcome("Panic", "plane", <<>>)
    ELSE IF overflowChecks /\ SlopeUnderflows(k)
        THEN Outcome("Panic", "slope", <<>>)
    ELSE Outcome("Ok", "done", GeneralDeck(k))

\* mutant: no n == 1 branch, order 1 goes through the general construction
generate_by_prime_NoUnitBranch(k) ==
    IF overflowChecks /\ CapacityOverflows(k)
        THEN Outcome("Panic", "check", <<>>)
    ELSE IF CapacityWrapped(k) > AlphabetSize
        THEN Outcome("ErrTooLarge", "check", <<>>)
    ELSE IF ~is_prime(k)
        THEN Outcome("ErrNotPrime", "check", <<>>)
    ELSE IF PlaneUnwrapsNone(k)
        THEN Outcome("Panic", "plane", <<>>)
    ELSE IF overflowChecks /\ SlopeUnderflows(k)
        THEN Outcome("Panic", "slope", <<>>)
    ELSE Outcome("Ok", "done", GeneralDeck(k))

\* kind:  Ok, ErrTooLarge, ErrNotPrime, or Panic (the call faults)
\* stage: the step of the function that decided the outcome
generate_by_prime(k) ==
    IF overflowChecks /\ CapacityOverflows(k)
        THEN Outcome("Panic", "check", <<>>)
    ELSE IF CapacityWrapped(k) > AlphabetSize
        THEN Outcome("ErrTooLarge", "check", <<>>)
    ELSE IF ~is_prime(k)
        THEN Outcome("ErrNotPrime", "check", <<>>)
    ELSE IF k = 1
        THEN Outcome("Ok", "done", UnitDeck)
    ELSE IF PlaneUnwrapsNone(k)
        THEN Outcome("Panic", "plane", <<>>)
    ELSE IF overflowChecks /\ SlopeUnderflows(k)
        THEN Outcome("Panic", "slope", <<>>)
    ELSE Outcome("Ok", "done", GeneralDeck(k))

(***************************************************************************)
(* The program: two runs of generate_by_prime(n), then deck operations.    *)
(***************************************************************************)
Init ==
    /\ \/ n \in 1..U8Max /\ zeroIsPrime = FALSE
       \/ n = 0 /\ zeroIsPrime \in BOOLEAN  \* only order 0 consults zeroIsPrime
    /\ overflowChecks \in BOOLEAN
    /\ res = [d \in Decks |-> NotRun]
    /\ deck = [d \in Decks |-> <<>>]
    /\ ops = 0
    /\ ret = None
    /\ last = NoOp
    /\ arg = None
    /\ prev = <<>>
    /\ cardA = {}
    /\ cardB = {}
    /\ matched = None

\* let deck = SpotItDeck::generate_by_prime(n)
Generate(d) ==
    /\ res[d] = NotRun
    /\ res' = [res EXCEPT ![d] = generate_by_prime(n)]
    /\ deck' = [deck EXCEPT ![d] = res'[d].cards]
    /\ UNCHANGED <<n, overflowChecks, zeroIsPrime, ops, ret, last, arg, prev, cardA, cardB, matched>>

\* the run returned Ok(deck), and the deck is within the explored sizes
HasDeck(d) == res[d].kind = "Ok" /\ Len(res[d].cards) <= MaxOpLen

\* mutant: the card is inserted at the front (Vec::insert(0, card))
PushCard_Front(d, card) ==
    /\ HasDeck(d) /\ ops < MaxOps
    /\ deck' = [deck EXCEPT ![d] = <<card>> \o @]
    /\ ret' = None
    /\ last' = <<"push_card", d>>
    /\ arg' = Some(card)
    /\ prev' = deck[d]
    /\ ops' = ops + 1
    /\ UNCHANGED <<n, overflowChecks, zeroIsPrime, res, cardA, cardB, matched>>

\* deck.push_card(card)
PushCard(d, card) ==
    /\ HasDeck(d) /\ ops < MaxOps
    /\ deck' = [deck EXCEPT ![d] = Append(@, card)]
    /\ ret' = None
    /\ last' = <<"push_card", d>>
    /\ arg' = Some(card)
    /\ prev' = deck[d]
    /\ ops' = ops + 1
    /\ UNCHANGED <<n, overflowChecks, zeroIsPrime, res, cardA, cardB, matched>>

\* mutant: the decks share their storage, a pop takes the last card of both
PopCard_Shared(d) ==
    /\ HasDeck(d) /\ ops < MaxOps
    /\ ret' = IF deck[d] = <<>> THEN None ELSE Some(deck[d][Len(deck[d])])
    /\ deck' = [e \in Decks |-> SubSeq(deck[e], 1, Len(deck[e]) - 1)]
    /\ last' = <<"pop_card", d>>
    /\ arg' = None
    /\ prev' = deck[d]
    /\ ops' = ops + 1
    /\ UNCHANGED <<n, overflowChecks, zeroIsPrime, res, cardA, cardB, matched>>

\* deck.pop_card()
PopCard(d) ==
    /\ HasDeck(d) /\ ops < MaxOps
    /\ IF deck[d] = <<>>
       THEN /\ ret' = None
            /\ deck' = deck
       ELSE /\ ret' = Some(deck[d][Len(deck[d])])
            /\ deck' = [deck EXCEPT ![d] = SubSeq(@, 1, Len(@) - 1)]
    /\ last' = <<"pop_card", d>>
    /\ arg' = None
    /\ prev' = deck[d]
    /\ ops' = ops + 1
    /\ UNCHANGED <<n, overflowChecks, zeroIsPrime, res, cardA, cardB, matched>>

\* mutant: Vec::swap_remove(index), the last card takes the freed place
Remove_Swap(s, index) ==
    [j \in 1..(Len(s) - 1) |-> IF j = index + 1 THEN s[Len(s)] ELSE s[j]]

\* Vec::remove(index), index from 0
Remove(s, index) == SubSeq(s, 1, index) \o SubSeq(s, index + 2, Len(s))

\* deck.pop_card_by_index(index)
PopCardByIndex(d, index) ==
    /\ HasDeck(d) /\ ops < MaxOps
    /\ IF Len(deck[d]) > index
       THEN /\ ret' = Some(deck[d][index + 1])
            /\ deck' = [deck EXCEPT ![d] = Remove(@, index)]
       ELSE /\ ret' = None
            /\ deck' = deck
    /\ last' = <<"pop_card_by_index", d>>
    /\ arg' = Some(index)
    /\ prev' = deck[d]
    /\ ops' = ops + 1
    /\ UNCHANGED <<n, overflowChecks, zeroIsPrime, res, cardA, cardB, matched>>

\* mutant: every position draws any card of the deck, with replacement
Shuffles_Sampled(s) == [1..Len(s) -> Range(s)]

\* the orders slice::shuffle can leave the cards in
Shuffles(s) == { [i \in 1..Len(s) |-> s[p[i]]] : p \in Permutations(1..Len(s)) }

\* deck.shuffle()
Shuffle(d) ==
    /\ HasDeck(d) /\ ops < MaxOps
    /\ Len(deck[d]) <= MaxShuffleLen
    /\ \E s \in Shuffles(deck[d]) : deck' = [deck EXCEPT ![d] = s]
    /\ ret' = None
    /\ last' = <<"shuffle", d>>
    /\ arg' = None
    /\ prev' = deck[d]
    /\ ops' = ops + 1
    /\ UNCHANGED <<n, overflowChecks, zeroIsPrime, res, cardA, cardB, matched>>

PushCards == SUBSET (0..MaxPushSym)

Next ==
    \/ \E d \in Decks : Generate(d)
    \/ \E d \in Decks : \E card \in PushCards : PushCard(d, card)
    \/ \E d \in Decks : PopCard(d)
    \/ \E d \in Decks : \E index \in 0..Len(deck[d]) : PopCardByIndex(d, index)
    \/ \E d \in Decks : Shuffle(d)

Spec == Init /\ [][Next]_vars

(***************************************************************************)
(* The match test on its own: two cards drawn from a small alphabet.       *)
(***************************************************************************)
MatchCards == SUBSET (0..MaxMatchSym)

InitMatch ==
    /\ n = 0
    /\ overflowChecks = FALSE
    /\ zeroIsPrime = FALSE
    /\ res = [d \in Decks |-> NotRun]
    /\ deck = [d \in Decks |-> <<>>]
    /\ ops = 0
    /\ ret = None
    /\ last = NoOp
    /\ arg = None
    /\ prev = <<>>
    /\ cardA \in MatchCards
    /\ cardB \in MatchCards
    /\ matched = None

\* matched = cardA.match_exactly_one_symbol(&cardB)
Match ==
    /\ matched = None
    /\ matched' = <<match_exactly_one_symbol(cardA, cardB),
                    match_exactly_one_symbol(cardB, cardA)>>
    /\ UNCHANGED <<n, overflowChecks, zeroIsPrime, res, deck, ops, ret, last, arg, prev, cardA, cardB>>

NextMatch == Match

SpecMatch == InitMatch /\ [][NextMatch]_vars


(***************************************************************************)
(* The helpers on their own, called with every u8 order.                   *)
(***************************************************************************)
InitHelper ==
    /\ n \in 0..U8Max
    /\ overflowChecks \in BOOLEAN
    /\ zeroIsPrime = FALSE
    /\ res = [d \in Decks |-> NotRun]
    /\ deck = [d \in Decks |-> <<>>]
    /\ ops = 0
    /\ ret = None
    /\ last = NoOp
    /\ arg = None
    /\ prev = <<>>
    /\ cardA = {}
    /\ cardB = {}
    /\ matched = None

\* let (plane, line) = SpotItDeck::gen_projective_plane(n)
CallGenProjectivePlane ==
    /\ last = NoOp
    /\ ret' = IF PlaneUnwrapsNone(n)
              THEN Outcome("Panic", "plane", <<>>)
              ELSE Outcome("Ok", "done", gen_projective_plane(n))
    /\ last' = <<"gen_projective_plane", 0>>
    /\ arg' = Some(n)
    /\ UNCHANGED <<n, overflowChecks, zeroIsPrime, res, deck, ops, prev, cardA, cardB, matched>>

\* let slope = SpotItDeck::cal_slope(n)
CallCalSlope ==
    /\ last = NoOp
    /\ ret' = IF overflowChecks /\ SlopeUnderflows(n)
              THEN Outcome("Panic", "slope", <<>>)
              ELSE Outcome("Ok", "done", cal_slope(n))
    /\ last' = <<"cal_slope", 0>>
    /\ arg' = Some(n)
    /\ UNCHANGED <<n, overflowChecks, zeroIsPrime, res, deck, ops, prev, cardA, cardB, matched>>

NextHelper == CallGenProjectivePlane \/ CallCalSlope

SpecHelper == InitHelper /\ [][NextHelper]_vars


(***************************************************************************)
(* Properties of the generated deck.                                       *)
(***************************************************************************)
\* k is a prime number
IsPrimeNumber(k) == k >= 2 /\ \A d \in 2..(k - 1) : k % d # 0

\* a prime order whose plane fits the alphabet: 2, 3, 5, 7
ValidOrder(k) == IsPrimeNumber(k) /\ k * k + k + 1 <= AlphabetSize

Ran(d) == res[d] # NotRun

\* C1: for every valid prime order n, every pair of distinct cards of the
\* deck returned by generate_by_prime(n) shares exactly one symbol.
C1_EveryPairSharesOneSymbol ==
    \A d \in Decks :
        (Ran(d) /\ ValidOrder(n)) =>
            /\ res[d].kind = "Ok"
            /\ \A i, j \in 1..Len(res[d].cards) :
                 i # j => match_exactly_one_symbol(res[d].cards[i], res[d].cards[j])

\* C2: for every valid prime order n, generate_by_prime(n) returns Ok with
\* a deck of exactly n*n + n + 1 cards.
C2_DeckSize ==
    \A d \in Decks :
        (Ran(d) /\ ValidOrder(n)) =>
            /\ res[d].kind = "Ok"
            /\ Len(res[d].cards) = n * n + n + 1

C2_Witness == n = 7 /\ res[1].kind = "Ok" /\ Len(res[1].cards) = 57

\* C3: for every valid prime order n, every card of the returned deck has
\* exactly n + 1 distinct symbols.
C3_CardSize ==
    \A d \in Decks :
        (Ran(d) /\ ValidOrder(n)) =>
            /\ res[d].kind = "Ok"
            /\ \A i \in 1..Len(res[d].cards) : Cardinality(res[d].cards[i]) = n + 1

C3_Witness ==
    /\ n = 7 /\ res[2].kind = "Ok"
    /\ \A i \in 1..57 : Cardinality(res[2].cards[i]) = 8

C5_TwoFailureOutcomes ==
    \A d \in Decks :
        Ran(d) =>
            /\ res[d].kind \in {"Ok", "ErrNotPrime", "ErrTooLarge"}
            /\ (res[d].kind # "Ok" => res[d].stage = "check" /\ res[d].cards = <<>>)
            /\ (IsPrimeNumber(n) /\ n * n + n + 1 > AlphabetSize
                    => res[d].kind = "ErrTooLarge")

\* C6: for every u8 order, generate_by_prime ends with Ok or a typed Err
\* and never faults.
C6_NeverFaults ==
    \A d \in Decks : Ran(d) => res[d].kind \in {"Ok", "ErrNotPrime", "ErrTooLarge"}

\* C7: generate_by_prime(1) takes the n == 1 branch and returns 3 cards of
\* 2 symbols, every pair sharing exactly one symbol: the grid symbol with
\* each symbol-at-infinity, then the two symbols-at-infinity.
C7_OrderOne ==
    \A d \in Decks :
        (Ran(d) /\ n = 1) =>
            /\ res[d].kind = "Ok"
            /\ res[d].cards = <<{0, 1}, {0, 2}, {1, 2}>>
            /\ \A i \in 1..3 : Cardinality(res[d].cards[i]) = 2
            /\ \A i, j \in 1..3 :
                 i # j => match_exactly_one_symbol(res[d].cards[i], res[d].cards[j])

C7_Witness == n = 1 /\ res[1].kind = "Ok" /\ Len(res[1].cards) = 3

\* C8: for every valid order n >= 2 the first card of the returned deck is
\* the first n alphabet symbols (grid row 0) plus the symbol of index n*n;
\* for n = 3 it is {Apple, Apricot, Avocado, Currant} in a deck of 13
\* cards of 4 symbols.
C8_FirstCard ==
    \A d \in Decks :
        (Ran(d) /\ ValidOrder(n)) =>
            /\ res[d].kind = "Ok"
            /\ res[d].cards[1] = (0..(n - 1)) \cup {n * n}
            /\ (n = 3 => /\ res[d].cards[1] = {0, 1, 2, 9}
                         /\ Len(res[d].cards) = 13
                         /\ \A i \in 1..13 : Cardinality(res[d].cards[i]) = 4)

C8_Witness == n = 3 /\ res[1].kind = "Ok" /\ res[1].cards[1] = {0, 1, 2, 9}

C10_MatchIffOneShared ==
    matched # None =>
        /\ matched[1] = (Cardinality(cardA \cap cardB) = 1)
        /\ matched[1] = matched[2]
        /\ (cardA = {} /\ cardB = {} => matched[1] = FALSE)
        /\ (Cardinality(cardA \cap cardB) >= 2 => matched[1] = FALSE)

C10_Witness ==
    /\ matched = <<FALSE, FALSE>>
    /\ cardA = {0, 1} /\ cardB = {0, 1, 2}

(***************************************************************************)
(* The container operations of a deck.                                     *)
(***************************************************************************)
Stepped(op, d) == ops' = ops + 1 /\ last' = <<op, d>>

\* number of positions of the sequence s that hold the card c
Count(s, c) == Cardinality({i \in 1..Len(s) : s[i] = c})

\* C11: pop_card_by_index(i) on a deck of length L: for i < L it returns
\* the card at position i and the deck becomes the former sequence without
\* that element, the other cards in their order (for i = L - 1 the same as
\* pop_card); for i >= L it returns None and leaves the deck unchanged.
C11_PopByIndex ==
    [][ \A d \in Decks :
          Stepped("pop_card_by_index", d) =>
            LET index == Unwrap(arg')
                L     == Len(deck[d])
            IN  /\ prev' = deck[d]
                /\ deck'[3 - d] = deck[3 - d]
                /\ IF index < L
                   THEN /\ ret' = Some(deck[d][index + 1])
                        /\ Len(deck'[d]) = L - 1
                        /\ \A j \in 1..index : deck'[d][j] = deck[d][j]
                        /\ \A j \in (index + 1)..(L - 1) : deck'[d][j] = deck[d][j + 1]
                        /\ (index = L - 1 => deck'[d] = SubSeq(deck[d], 1, L - 1))
                   ELSE /\ ret' = None
                        /\ deck'[d] = deck[d]
      ]_vars

C11_Witness ==
    /\ n = 1 /\ last = <<"pop_card_by_index", 1>> /\ ops = 1
    /\ arg = Some(1)
    /\ ret = Some({0, 2})
    /\ deck[1] = <<{0, 1}, {1, 2}>>

\* C12: push_card(c) followed at once by pop_card() returns Some(c) and
\* restores the sequence the deck had before the push, after any earlier
\* operations; pop_card() on an empty deck returns None and leaves it empty;
\* two successive pop_card calls return the last and then the last-but-one
\* card, the reverse of the order in which push_card appended them.
C12_PushPop ==
    [][ \A d \in Decks :
          /\ Stepped("push_card", d) =>
                deck'[d] = Append(deck[d], Unwrap(arg'))
          /\ Stepped("pop_card", d) =>
                /\ (deck[d] = <<>> => ret' = None /\ deck'[d] = <<>>)
                /\ (deck[d] # <<>> =>
                        /\ ret' = Some(deck[d][Len(deck[d])])
                        /\ Append(deck'[d], Unwrap(ret')) = deck[d])
                /\ (last = <<"push_card", d>> =>
                        /\ ret' = arg
                        /\ deck'[d] = prev)
                /\ (last = <<"pop_card", d>> /\ Len(prev) >= 2 =>
                        /\ ret = Some(prev[Len(prev)])
                        /\ ret' = Some(prev[Len(prev) - 1]))
      ]_vars

\* pop_card_by_index(1), push_card({0}), pop_card() on the deck of order 1
C12_Witness ==
    /\ n = 1 /\ last = <<"pop_card", 1>> /\ ops = 3
    /\ prev = <<{0, 1}, {1, 2}, {0}>>
    /\ ret = Some({0})
    /\ deck[1] = <<{0, 1}, {1, 2}>>

\* C18: shuffle changes only the order of the cards: the same cards the
\* same number of times, the same length and emptiness; an empty or
\* one-card deck is left as it was.
C18_ShufflePermutes ==
    [][ \A d \in Decks :
          Stepped("shuffle", d) =>
            /\ Len(deck'[d]) = Len(deck[d])
            /\ (deck'[d] = <<>>) = (deck[d] = <<>>)
            /\ \A c \in Range(deck[d]) \cup Range(deck'[d]) :
                 Count(deck'[d], c) = Count(deck[d], c)
            /\ (Len(deck[d]) <= 1 => deck'[d] = deck[d])
      ]_vars

C18_Witness ==
    /\ n = 1 /\ last = <<"shuffle", 2>>
    /\ prev = <<{0, 1}, {0, 2}, {1, 2}>>
    /\ deck[2] = <<{1, 2}, {0, 1}, {0, 2}>>

(***************************************************************************)
(* The geometry of the generated deck.                                     *)
(***************************************************************************)
\* the inverse of q modulo the prime k
ModInverse(q, k) == CHOOSE v \in 0..(k - 1) : (q * v) % k = 1 % k

\* the grid symbols of the line computed by modular arithmetic:
\* x = c (mod k) for the infinite slope, y = (p/q) x + c (mod k) otherwise
DirectLine(plane, k, slope, c) ==
    IF slope.tag = "Infinity"
    THEN { plane[y][c % k] : y \in 0..(k - 1) }
    ELSE LET a == (slope.numer * ModInverse(slope.denom % k, k)) % k
         IN  { plane[(a * x + c) % k][x] : x \in 0..(k - 1) }

\* C13: for every valid order n >= 2, every slope of the slope set and
\* every offset c, the grid symbols the scan collects are exactly the n
\* points of the line computed by arithmetic modulo n.
C13_ScanIsModularLine ==
    \A d \in Decks :
        (Ran(d) /\ ValidOrder(n)) =>
            LET pl     == gen_projective_plane(n)
                slopes == cal_slope(n)
            IN  \A s \in 1..Len(slopes) : \A c \in 0..(n - 1) :
                    /\ SymbolOnPlane(pl.plane, n, slopes[s], c)
                           = DirectLine(pl.plane, n, slopes[s], c)
                    /\ Cardinality(SymbolOnPlane(pl.plane, n, slopes[s], c)) = n

\* C14: for every n with n*n + n + 1 <= alphabet size, gen_projective_plane
\* returns an n x n grid whose cell [r][c] is symbol r*n + c and an infinity
\* list of n + 1 entries whose k-th entry is symbol n*n + k; grid and list
\* are disjoint and together are the first n*n + n + 1 symbols, each once.
C14_PlaneLayout ==
    (last = <<"gen_projective_plane", 0>> /\ n * n + n + 1 <= AlphabetSize) =>
        /\ ret.kind = "Ok"
        /\ LET pl   == ret.cards
               grid == { pl.plane[r][c] : r \in 0..(n - 1), c \in 0..(n - 1) }
           IN  /\ DOMAIN pl.plane = 0..(n - 1)
               /\ \A r \in 0..(n - 1) :
                    /\ DOMAIN pl.plane[r] = 0..(n - 1)
                    /\ \A c \in 0..(n - 1) : pl.plane[r][c] = r * n + c
               /\ Len(pl.line) = n + 1
               /\ \A k \in 0..n : pl.line[k + 1] = n * n + k
               /\ grid \cap Range(pl.line) = {}
               /\ grid \cup Range(pl.line) = 0..(n * n + n)
               /\ Cardinality(grid) = n * n
               /\ Cardinality(Range(pl.line)) = n + 1

\* gen_projective_plane(5): plane[1][1] is Blackcurrant, 6 symbols at infinity
C14_Witness ==
    /\ n = 5 /\ last = <<"gen_projective_plane", 0>>
    /\ ret.kind = "Ok"
    /\ ret.cards.plane[1][1] = 6
    /\ Len(ret.cards.line) = 6

C16_SlopeSet ==
    (last = <<"cal_slope", 0>> /\ n >= 2) =>
        /\ ret.kind = "Ok"
        /\ LET slopes == ret.cards
           IN  /\ Len(slopes) = n + 1
               /\ slopes[1] = FNew(0, n - 1)
               /\ slopes[1] = [tag |-> "Rational", numer |-> 0, denom |-> 1]
               /\ \A i \in 0..(n - 1) : slopes[i + 2] = FNew(1, i)
               /\ slopes[2].tag = "Infinity"
               /\ \A i \in 1..(n - 1) :
                    slopes[i + 2] = [tag |-> "Rational", numer |-> 1, denom |-> i]
               /\ Cardinality(Range(slopes)) = n + 1
               /\ Cardinality({i \in 1..Len(slopes) : slopes[i].tag = "Infinity"}) = 1
               /\ \A i \in 1..Len(slopes) : slopes[i].tag # "NaN"

C16_Witness ==
    /\ n = 3 /\ last = <<"cal_slope", 0>>
    /\ ret.kind = "Ok"
    /\ ret.cards = <<FNew(0, 2), FNew(1, 0), FNew(1, 1), FNew(1, 2)>>

\* C17: for every valid prime order n, each of the first n*n + n + 1
\* alphabet symbols appears in exactly n + 1 cards of the returned deck,
\* and no other symbol appears on any card.
C17_SymbolInNPlusOneCards ==
    \A d \in Decks :
        (Ran(d) /\ ValidOrder(n)) =>
            LET cards == res[d].cards
            IN  /\ res[d].kind = "Ok"
                /\ \A sym \in 0..(n * n + n) :
                     Cardinality({i \in 1..Len(cards) : sym \in cards[i]}) = n + 1
                /\ \A i \in 1..Len(cards) : cards[i] \subseteq 0..(n * n + n)

C17_Witness ==
    /\ n = 7 /\ res[1].kind = "Ok"
    /\ Cardinality({i \in 1..57 : 0 \in res[1].cards[i]}) = 8
    /\ Cardinality({i \in 1..57 : 56 \in res[1].cards[i]}) = 8

====
